---- MODULE Spec2Model ----
(***************************************************************************)
(* latency-dash: the metrics calculator (backend/calculator/calculator.go). *)
(*                                                                         *)
(* Spec        the running calculator: producers calling ProcessEvent, the *)
(*             bounded event queue and the aggregation loop of Start.      *)
(* SpecSeries  one Metrics value fed by Update, one event per step.        *)
(* SpecSteps   one Metrics value, Update taken store by store, as a        *)
(*             concurrent reader of Min/Max/Avg/P90/Count can observe it.  *)
(* SpecP90     one Metrics value of the default capacity (MaxSamples) fed  *)
(*             events 100..1000 ms apart.                                  *)
(*                                                                         *)
(* Time.  Event.ServerTimestamp is in nanoseconds.  The events of this     *)
(* model lie on whole milliseconds, and an event carries its timestamp in  *)
(* milliseconds (field ms): float64(ServerTimestamp)/float64(Millisecond)  *)
(* is then exactly ms, and every float64 of Update and calculatePercentile *)
(* is a whole number of milliseconds.  The stored statistics (min, max,    *)
(* avg, p90) are int64 nanoseconds, as in the source.                      *)
(***************************************************************************)
EXTENDS Integers, Sequences, FiniteSets, TLC

VARIABLES
    updateCh,   \* MetricsCalculator.updateCh: the buffered events, oldest first
    metrics,    \* MetricsCalculator.metrics: series key -> Metrics
    sent,       \* per producer: the number of ProcessEvent calls it has made
    result,     \* per producer: what its last ProcessEvent call returned
    accepted,   \* per producer: the number of its calls that returned nil
    m,          \* the Metrics value of SpecSeries, SpecSteps and SpecP90
    hist,       \* the timestamps (ms) passed to Update on m, in call order
    upd,        \* the Update in progress on m: the stores still to do, and its locals
    subscribers, \* MetricsCalculator.subscribers: the channels Subscribe has registered
    chans,      \* per subscriber channel: the updates it buffers, oldest first
    lastUpdate, \* the MetricsUpdate the loop of Start built last
    quiescent,  \* the seconds since the last subscriber unsubscribed; -1 while
                \* there is a subscriber, and before the first one
    clients,    \* WebSocketServer.clients: the registered connections
    conn,       \* per connection: "none", "open", "stalled", "dead" or "closed"
    reading,    \* per connection: the read loop of its HandleWebSocket call runs
    inbox,      \* per connection: the messages written to it, oldest first
    subscription, \* per connection: the subscription message handled for it
    bcast,      \* the Broadcast call in progress (it holds clientsMu)
    broadcasts, \* the number of Broadcast calls made
    undecoded,  \* per connection: the messages read from it that did not decode
    closed,     \* per channel (stopCh, updateCh, the subscriber channels): the
                \* number of close calls made on it
    nilMaps,    \* which of the maps metrics and subscribers are nil
    ctx,        \* the context passed to Start: "live" or "done"
    start,      \* the Start call: where it is, and what it returns
    stop,       \* Stop: the calls made, and how far the body of doOnce.Do has run
    panics      \* the calls that have panicked

calcVars == <<updateCh, metrics, sent, result, accepted>>
seriesVars == <<m, hist, upd>>
notifyVars == <<subscribers, chans, lastUpdate, quiescent>>
hubVars == <<clients, conn, reading, inbox, subscription, bcast, broadcasts, undecoded>>
lifeVars == <<closed, nilMaps, ctx, start, stop, panics>>
vars == <<updateCh, metrics, sent, result, accepted, m, hist, upd,
          subscribers, chans, lastUpdate, quiescent,
          clients, conn, reading, inbox, subscription, bcast, broadcasts, undecoded,
          closed, nilMaps, ctx, start, stop, panics>>

(***************************************************************************)
(* Program constants.                                                      *)
(***************************************************************************)
MaxSamples == 1000
millisecondsToNanoseconds == 1000000
P90Percentile == 90

\* The grace period of the documented timeout tests, in seconds.
GracePeriod == 2

(***************************************************************************)
(* Bounds of the model.  QueueCap stands for the capacity of updateCh      *)
(* (1000 in NewMetricsCalculator); MaxCap bounds the ring sizes of the     *)
(* series specifications (the tests build Metrics with ring.New(1) and     *)
(* ring.New(10)).                                                          *)
(***************************************************************************)
QueueCap == 2
MaxSends == 2
MaxCap == 3
MaxTime == 3
MaxEvents == 5
SubCap == 1
MaxBroadcasts == 2
MaxQuiet == 3
MaxStops == 2
MaxUndecoded == 1

Min2(a, b) == IF a <= b THEN a ELSE b

Last(s) == s[Len(s)]

(***************************************************************************)
(* container/ring, as Metrics uses it: a ring of len elements, the current *)
(* element pos, and the elements' values.  An element whose Value is nil   *)
(* is an element outside DOMAIN val.                                       *)
(***************************************************************************)
ringNew(n) == [len |-> n, pos |-> 1, val |-> << >>]

ringNext(r) == [r EXCEPT !.pos = (r.pos % r.len) + 1]

ringHasValue(r) == r.pos \in DOMAIN r.val

ringValue(r) == r.val[r.pos]

ringSetValue(r, v) == [r EXCEPT !.val = (r.pos :> v) @@ r.val]

(***************************************************************************)
(* Metrics.                                                                *)
(***************************************************************************)
NewMetrics(target, key, metadata, n) ==
    [TargetID |-> target, Key |-> key, Metadata |-> metadata,
     Samples |-> ringNew(n),
     count |-> 0, min |-> 0, max |-> 0, avg |-> 0, p90 |-> 0]

\* Update, lines 250-265: the interval since the last event, in ms.
IntervalMsUnclamped(mm, currentTimeMs) ==
    IF mm.count > 0 /\ ringHasValue(mm.Samples)
    THEN currentTimeMs - ringValue(mm.Samples)
    ELSE 0

IntervalMsFromZero(mm, currentTimeMs) ==
    IF ringHasValue(mm.Samples)
    THEN (IF currentTimeMs - ringValue(mm.Samples) < 0 THEN 0
          ELSE currentTimeMs - ringValue(mm.Samples))
    ELSE currentTimeMs

IntervalMs(mm, currentTimeMs) ==
    IF mm.count > 0 /\ ringHasValue(mm.Samples)
    THEN LET intervalMs == currentTimeMs - ringValue(mm.Samples)
         IN  IF intervalMs < 0 THEN 0 ELSE intervalMs
    ELSE 0

\* Update, line 272.
IntervalNs(mm, currentTimeMs) ==
    IntervalMs(mm, currentTimeMs) * millisecondsToNanoseconds

\* Update, lines 267-269: the timestamp goes into the next element of the ring.
RecordSampleInPlace(mm, currentTimeMs) ==
    [mm EXCEPT !.Samples = ringSetValue(mm.Samples, currentTimeMs)]

RecordSample(mm, currentTimeMs) ==
    [mm EXCEPT !.Samples = ringSetValue(ringNext(mm.Samples), currentTimeMs)]

\* calculatePercentile, lines 328-337: count elements from the current one on.
RECURSIVE CollectTimestamps(_, _)
CollectTimestamps(r, n) ==
    IF n = 0 THEN << >>
    ELSE (IF ringHasValue(r) THEN <<ringValue(r)>> ELSE << >>)
         \o CollectTimestamps(ringNext(r), n - 1)

\* calculatePercentile, lines 339-345: the non-negative consecutive differences.
ConsecutiveIntervals(timestamps) ==
    LET diffs == [i \in 1..(Len(timestamps) - 1) |-> timestamps[i + 1] - timestamps[i]]
    IN  SelectSeq(diffs, LAMBDA d : d >= 0)

\* sort.Float64s: ascending order.
RECURSIVE InsertSorted(_, _)
InsertSorted(s, x) ==
    IF s = << >> THEN <<x>>
    ELSE IF x <= Head(s) THEN <<x>> \o s
    ELSE <<Head(s)>> \o InsertSorted(Tail(s), x)

RECURSIVE SortFloat64s(_)
SortFloat64s(s) ==
    IF s = << >> THEN << >>
    ELSE InsertSorted(SortFloat64s(Tail(s)), Head(s))

\* calculatePercentile: the percentile in ms.  With count <= 1 it is avg in ms;
\* Update calls it with count = 1 only right after storing avg = 0.
calculatePercentile(mm, p) ==
    IF mm.count <= 1 THEN mm.avg \div millisecondsToNanoseconds
    ELSE LET timestamps == CollectTimestamps(mm.Samples, mm.count)
             samples == ConsecutiveIntervals(timestamps)
         IN  IF Len(samples) = 0 THEN 0
             ELSE LET sorted == SortFloat64s(samples)
                      index0 == ((Len(samples) - 1) * p) \div 100
                      index == IF index0 >= Len(samples) THEN Len(samples) - 1
                               ELSE index0
                  IN  sorted[index + 1]

\* Update, lines 274-317: the atomic stores, in program order.  count and
\* intervalNs are Update's locals.  m.mu is held, so each compare-and-swap
\* succeeds at its first attempt.
StoreMin(mm, count, intervalNs) ==
    IF count = 0 THEN [mm EXCEPT !.min = intervalNs]
    ELSE IF intervalNs >= mm.min THEN mm
    ELSE [mm EXCEPT !.min = intervalNs]

StoreMaxLatest(mm, count, intervalNs) == [mm EXCEPT !.max = intervalNs]

StoreMax(mm, count, intervalNs) ==
    IF count = 0 THEN [mm EXCEPT !.max = intervalNs]
    ELSE IF intervalNs <= mm.max THEN mm
    ELSE [mm EXCEPT !.max = intervalNs]

\* (currentAvg*count + intervalNs) / (count + 1) on int64.  With
\* currentAvg = q*(count+1) + r the quotient is q*count + (r*count + intervalNs)
\* / (count+1); written so, no intermediate value exceeds 32 bits.
NewAvg(currentAvg, count, intervalNs) ==
    LET q == currentAvg \div (count + 1)
        r == currentAvg % (count + 1)
    IN  q * count + ((r * count + intervalNs) \div (count + 1))

StoreAvgOfIntervals(mm, count, intervalNs) ==
    IF count <= 1 THEN [mm EXCEPT !.avg = intervalNs]
    ELSE [mm EXCEPT !.avg = NewAvg(mm.avg, count - 1, intervalNs)]

StoreAvg(mm, count, intervalNs) ==
    IF count = 0 THEN [mm EXCEPT !.avg = intervalNs]
    ELSE [mm EXCEPT !.avg = NewAvg(mm.avg, count, intervalNs)]

AddCount(mm) == [mm EXCEPT !.count = mm.count + 1]

StoreP90(mm) ==
    [mm EXCEPT !.p90 = calculatePercentile(mm, P90Percentile) * millisecondsToNanoseconds]

StoreOrderAvgBeforeMax == <<"min", "avg", "max", "count", "p90">>

StoreOrder == <<"min", "max", "avg", "count", "p90">>

ApplyStore(store, mm, count, intervalNs) ==
    CASE store = "min"   -> StoreMin(mm, count, intervalNs)
      [] store = "max"   -> StoreMax(mm, count, intervalNs)
      [] store = "avg"   -> StoreAvg(mm, count, intervalNs)
      [] store = "count" -> AddCount(mm)
      [] store = "p90"   -> StoreP90(mm)

\* The stores one after another; each result is a value before the next
\* store is applied to it.
RECURSIVE RunStores(_, _, _, _)
RunStores(stores, mm, count, intervalNs) ==
    IF stores = << >> THEN mm
    ELSE CHOOSE r \in {RunStores(Tail(stores), next, count, intervalNs) :
                        next \in {ApplyStore(Head(stores), mm, count, intervalNs)}} : TRUE

\* Metrics.Update, as one step.
Update(mm, currentTimeMs) ==
    RunStores(StoreOrder, RecordSample(mm, currentTimeMs),
              mm.count, IntervalNs(mm, currentTimeMs))

(***************************************************************************)
(* The calculator.  An event is [TargetId, Key, ms, Metadata]; Metadata, a *)
(* map[string]string, is the set of its <<key, value>> entries.  A series  *)
(* key, a string, is the sequence of the pieces it is concatenated from.   *)
(***************************************************************************)
Producers == {"key-0", "key-1"}

Timestamps == {0, 1}

Metadatas ==
    { {<<"tier", "test">>},
      {<<"region", "us-east">>, <<"tier", "enterprise">>} }

Event(key, ms, metadata) ==
    [TargetId |-> "test-target", Key |-> key, ms |-> ms, Metadata |-> metadata]

NoError == "nil"
ErrQueueFull == "event queue full"

\* ProcessEvent, lines 146-153, while stopCh is open: the send case is ready
\* when the buffer of updateCh has room, and the default case is taken otherwise.
ProcessEventDropOldest(ch, event) ==
    IF Len(ch) < QueueCap
    THEN [ch |-> Append(ch, event), err |-> NoError]
    ELSE [ch |-> Append(Tail(ch), event), err |-> ErrQueueFull]

ProcessEventPushFront(ch, event) ==
    IF Len(ch) < QueueCap
    THEN [ch |-> <<event>> \o ch, err |-> NoError]
    ELSE [ch |-> ch, err |-> ErrQueueFull]

ProcessEventSelect(ch, event) ==
    IF Len(ch) < QueueCap
    THEN [ch |-> Append(ch, event), err |-> NoError]
    ELSE [ch |-> ch, err |-> ErrQueueFull]

\* getOrCreateMetrics, lines 217-223: `range event.Metadata` visits the
\* entries in an order the Go runtime picks anew at every loop.
RangeOrders(metadata) ==
    {order \in [1..Cardinality(metadata) -> metadata] :
        \A i, j \in 1..Cardinality(metadata) : i # j => order[i] # order[j]}

RECURSIVE AppendMetadata(_, _)
AppendMetadata(key, order) ==
    IF order = << >> THEN key
    ELSE AppendMetadata(key \o <<":", Head(order)[1], "=", Head(order)[2]>>,
                        Tail(order))

SeriesKey(event, order) ==
    AppendMetadata(<<event.TargetId, ":", event.Key>>, order)

\* createMetric, lines 201-213.
createMetric(ms, key, event) ==
    [k \in (DOMAIN ms) \cup {key} |->
        IF k = key
        THEN NewMetrics(event.TargetId, event.Key, event.Metadata, MaxSamples)
        ELSE ms[k]]

\* getOrCreateMetrics, lines 225-230: the series map with the event's series in it.
getOrCreateAlwaysCreate(ms, key, event) == createMetric(ms, key, event)

getOrCreateMetrics(ms, key, event) ==
    IF key \in DOMAIN ms THEN ms ELSE createMetric(ms, key, event)

\* Start, lines 120-125: the series map after the event has been applied.
ApplyEvent(ms, key, event) ==
    LET created == getOrCreateMetrics(ms, key, event)
    IN  [created EXCEPT ![key] = Update(created[key], event.ms)]

\* No Update is in progress on m.
NoUpdate == [todo |-> << >>, count |-> 0, intervalNs |-> 0]

\* The subscriber channels: the one the WebSocket server's goroutine ranges
\* over (NewWebSocketServer) and one of a direct caller of Subscribe.
Channels == {"hub", "sub"}

\* Metrics.Min, Max, Avg, P90, lines 48-65: float64(ns) / float64(time.Millisecond),
\* kept as the exact quotient ns / per.
Float64Ms(ns) == [ns |-> ns, per |-> millisecondsToNanoseconds]

\* Start, lines 128-138: the update built from the event and the getters of
\* its series.  LastUpdated is the wall clock and is left out.
MetricsUpdate(event, mm) ==
    [TargetId |-> event.TargetId, Key |-> event.Key,
     Min |-> Float64Ms(mm.min), Max |-> Float64Ms(mm.max),
     Avg |-> Float64Ms(mm.avg), P90 |-> Float64Ms(mm.p90),
     Count |-> mm.count, Metadata |-> event.Metadata]

\* No update has been built yet.
NoMetricsUpdate == [Count |-> 0]

\* Start, lines 124-138: the series map after the event has been applied and
\* the update read from the event's series.
StartTurnSnapshotFirst(ms, key, event) ==
    [metrics |-> ApplyEvent(ms, key, event),
     update |-> MetricsUpdate(event, getOrCreateMetrics(ms, key, event)[key])]

StartTurn(ms, key, event) ==
    LET after == ApplyEvent(ms, key, event)
    IN  [metrics |-> after, update |-> MetricsUpdate(event, after[key])]

\* notifySubscribers, lines 233-244: every registered channel is offered the
\* update once; a channel whose buffer is full drops it.
notifyFirstSubscriberOnly(subs, chs, update) ==
    [ch \in DOMAIN chs |->
        IF subs # {} /\ ch = (CHOOSE c \in subs : TRUE) /\ Len(chs[ch]) < SubCap
        THEN Append(chs[ch], update)
        ELSE chs[ch]]

notifyAllOrNone(subs, chs, update) ==
    [ch \in DOMAIN chs |->
        IF ch \in subs /\ \A other \in subs : Len(chs[other]) < SubCap
        THEN Append(chs[ch], update)
        ELSE chs[ch]]

notifySubscribers(subs, chs, update) ==
    [ch \in DOMAIN chs |->
        IF ch \in subs /\ Len(chs[ch]) < SubCap
        THEN Append(chs[ch], update)
        ELSE chs[ch]]

\* The connections of the WebSocket server's consumers.
Conns == {"c1", "c2"}

NoSubscription == [TargetId |-> "none"]

\* No Broadcast call is in progress.
NoBroadcast == [active |-> FALSE]

\* NewWebSocketServer: no connection has been accepted.
HubInit ==
    /\ clients = {}
    /\ conn = [c \in Conns |-> "none"]
    /\ reading = [c \in Conns |-> FALSE]
    /\ inbox = [c \in Conns |-> << >>]
    /\ subscription = [c \in Conns |-> NoSubscription]
    /\ bcast = NoBroadcast
    /\ broadcasts = 0
    /\ undecoded = [c \in Conns |-> 0]

\* The channels that are closed at shutdown.
ClosableChannels == Channels \cup {"stopCh", "updateCh"}

\* Start runs its loop with a live context, Stop has not been called, no
\* channel is closed and both maps are the ones NewMetricsCalculator made.
Running == [pc |-> "loop", err |-> "none"]

NotStopped == [calls |-> 0, pc |-> "idle"]

LifeInit ==
    /\ closed = [ch \in ClosableChannels |-> 0]
    /\ nilMaps = {}
    /\ ctx = "live"
    /\ start = Running
    /\ stop = NotStopped
    /\ panics = {}

\* NewMetricsCalculator, and Start called.
Init ==
    /\ updateCh = << >>
    /\ metrics = << >>
    /\ sent = [p \in Producers |-> 0]
    /\ result = [p \in Producers |-> "none"]
    /\ accepted = [x \in Producers \X Metadatas |-> 0]
    /\ m = NewMetrics("t", "k", {}, 1)
    /\ hist = << >>
    /\ upd = NoUpdate
    /\ subscribers = {}
    /\ chans = [ch \in Channels |-> << >>]
    /\ lastUpdate = NoMetricsUpdate
    /\ quiescent = -1
    /\ HubInit
    /\ LifeInit

\* ProcessEvent(event), called by producer p for its own key, with a
\* timestamp of tss and a metadata of mds.
ProcessEventFrom(p, tss, mds) ==
    /\ sent[p] < MaxSends
    /\ \E ts \in tss, md \in mds :
          LET r == ProcessEventSelect(updateCh, Event(p, ts, md))
          IN  /\ updateCh' = r.ch
              /\ result' = [result EXCEPT ![p] = r.err]
              /\ accepted' = IF r.err = NoError
                             THEN [accepted EXCEPT ![<<p, md>>] = @ + 1]
                             ELSE accepted
    /\ sent' = [sent EXCEPT ![p] = @ + 1]
    /\ UNCHANGED <<metrics, m, hist, upd, notifyVars, hubVars, lifeVars>>

ProcessEvent(p) == ProcessEventFrom(p, Timestamps, Metadatas)

\* One turn of the loop of Start: an event is received from updateCh, its
\* series is looked up or created, Update is applied to it, and the update
\* built from the series is offered to every subscriber.
StartEvent ==
    /\ updateCh # << >>
    /\ LET event == Head(updateCh)
       IN  \E order \in RangeOrders(event.Metadata) :
              LET turn == StartTurn(metrics, SeriesKey(event, order), event)
              IN  /\ metrics' = turn.metrics
                  /\ lastUpdate' = turn.update
                  /\ chans' = notifySubscribers(subscribers, chans, turn.update)
    /\ updateCh' = Tail(updateCh)
    /\ UNCHANGED <<sent, result, accepted, m, hist, upd, subscribers, quiescent, hubVars, lifeVars>>

Next == (\E p \in Producers : ProcessEvent(p)) \/ StartEvent

Spec == Init /\ [][Next]_vars

\* Subscribe, lines 156-162: a new, empty channel is registered.
SubscribeStartsAfresh(ch) ==
    /\ ch \notin subscribers
    /\ subscribers' = subscribers \cup {ch}
    /\ chans' = [chans EXCEPT ![ch] = << >>]
    /\ quiescent' = -1
    /\ metrics' = IF subscribers = {} /\ quiescent > GracePeriod THEN << >> ELSE metrics
    /\ UNCHANGED <<updateCh, sent, result, accepted, seriesVars, lastUpdate, hubVars, lifeVars>>

Subscribe(ch) ==
    /\ ch \notin subscribers
    /\ subscribers' = subscribers \cup {ch}
    /\ chans' = [chans EXCEPT ![ch] = << >>]
    /\ quiescent' = -1
    /\ UNCHANGED <<calcVars, seriesVars, lastUpdate, hubVars, lifeVars>>

\* Unsubscribe(ch), lines 164-169: the channel is deleted from the map and
\* closed; what it buffers stays readable.
Unsubscribe(ch) ==
    /\ ch \in subscribers
    /\ subscribers' = subscribers \ {ch}
    /\ quiescent' = IF subscribers = {ch} THEN 0 ELSE quiescent
    /\ UNCHANGED <<calcVars, seriesVars, chans, lastUpdate, hubVars, lifeVars>>

\* The owner of a subscriber channel receives the oldest buffered update
\* (`for update := range subscriber`, `<-sub`).
Receive(ch) ==
    /\ chans[ch] # << >>
    /\ chans' = [chans EXCEPT ![ch] = Tail(@)]
    /\ UNCHANGED <<calcVars, seriesVars, subscribers, lastUpdate, quiescent, hubVars, lifeVars>>

\* The events of the calculator with subscribers carry one metadata.
TierOnly == {md \in Metadatas : Cardinality(md) = 1}

NextNotify ==
    \/ ProcessEventFrom("key-0", Timestamps, TierOnly)
    \/ StartEvent
    \/ \E ch \in Channels : Subscribe(ch)
    \/ \E ch \in Channels : Unsubscribe(ch)
    \/ \E ch \in Channels : Receive(ch)

\* A second of wall-clock time passes while no subscriber is registered.  The
\* calculator has no timer, no sweep and no cleanup of its series map: nothing
\* but the time changes.
Tick ==
    /\ quiescent >= 0
    /\ quiescent < MaxQuiet
    /\ quiescent' = quiescent + 1
    /\ UNCHANGED <<calcVars, seriesVars, subscribers, chans, lastUpdate, hubVars, lifeVars>>

NextGrace == NextNotify \/ Tick

\* The calculator with subscribers and the passing of time.
SpecGrace == Init /\ [][NextGrace]_vars

\* The calculator with subscribers, while Start runs (neither Stop nor the
\* context has ended it).  The loop goroutine is scheduled fairly: whenever an
\* event is buffered, the receive case of its select is ready.
SpecNotify == Init /\ [][NextNotify]_vars /\ WF_vars(StartEvent)

(***************************************************************************)
(* Shutdown.  Stop is taken in the three parts other goroutines can tell   *)
(* apart: close(stopCh); then, with metricsMu taken, close(updateCh) and   *)
(* metrics = nil; then, with subscribersMu taken, the close of every       *)
(* subscriber channel and subscribers = nil.  Both locks are released when *)
(* Stop returns.  A turn of the loop of Start needs metricsMu in           *)
(* getOrCreateMetrics, and waits while Stop holds it.  A panic ends the    *)
(* process: nothing runs after it.                                         *)
(***************************************************************************)
ErrStopping == "calculator is stopping"
PanicSendOnClosed == "panic: send on closed channel"

\* ProcessEvent, lines 146-153: the outcomes of the select.  One ready case is
\* chosen at random; the default case is taken when none is ready.  A send on
\* a closed channel is a ready case, and panics.
ProcessEventCases(ch, event, cl) ==
    IF cl["stopCh"] = 0 /\ cl["updateCh"] = 0
    THEN {ProcessEventSelect(ch, event)}
    ELSE {[ch |-> ch, err |-> ErrStopping]}
         \cup (IF cl["updateCh"] > 0 THEN {[ch |-> ch, err |-> PanicSendOnClosed]}
               ELSE IF Len(ch) < QueueCap THEN {[ch |-> Append(ch, event), err |-> NoError]}
               ELSE {})

Alive == panics = {}

\* ProcessEvent(event), called by producer p at any time.
ProcessEventAnytime(p) ==
    /\ Alive
    /\ sent[p] < MaxSends
    /\ \E ts \in Timestamps, md \in TierOnly :
          \E r \in ProcessEventCases(updateCh, Event(p, ts, md), closed) :
              /\ updateCh' = r.ch
              /\ result' = [result EXCEPT ![p] = r.err]
              /\ accepted' = IF r.err = NoError
                             THEN [accepted EXCEPT ![<<p, md>>] = @ + 1]
                             ELSE accepted
              /\ panics' = IF r.err = PanicSendOnClosed
                           THEN panics \cup {"ProcessEvent"} ELSE panics
    /\ sent' = [sent EXCEPT ![p] = @ + 1]
    /\ UNCHANGED <<metrics, seriesVars, notifyVars, hubVars, closed, nilMaps, ctx, start, stop>>

\* close(ch) for every channel of subs; closing a closed channel panics.
CloseAll(subs, cl) == [ch \in DOMAIN cl |-> IF ch \in subs THEN cl[ch] + 1 ELSE cl[ch]]

ClosesClosed(subs, cl) == \E ch \in subs : cl[ch] > 0

\* Stop holds metricsMu: from its second part until it returns.
StopHoldsMetricsMu == stop.pc = "updateCh"

\* The deferred function of Start holds subscribersMu from line 101 to line
\* 106 only: it has released it when it asks for metricsMu at line 109.
StartHoldsSubscribersMuToReturn(st) == st.pc = "clear"

StartHoldsSubscribersMu(st) == FALSE

\* Start(ctx), lines 90-96: the select before the loop.
StartCall ==
    /\ Alive
    /\ start.pc = "idle"
    /\ \/ closed["stopCh"] > 0 /\ start' = [pc |-> "returned", err |-> "nil"]
       \/ ctx = "done" /\ start' = [pc |-> "returned", err |-> "ctx.Err"]
       \/ closed["stopCh"] = 0 /\ ctx = "live" /\ start' = Running
    /\ UNCHANGED <<calcVars, seriesVars, notifyVars, hubVars, closed, nilMaps, ctx, stop, panics>>

\* Start, lines 120-140: the receive case is chosen and the turn runs.
StartReceive ==
    /\ Alive
    /\ start.pc = "loop"
    /\ ~StopHoldsMetricsMu
    /\ "metrics" \notin nilMaps
    /\ StartEvent

\* Start, line 124, after Stop: the series is not in the nil map, and
\* createMetric (line 211) assigns to an entry of the nil map.
StartReceivePanics ==
    /\ Alive
    /\ start.pc = "loop"
    /\ ~StopHoldsMetricsMu
    /\ "metrics" \in nilMaps
    /\ updateCh # << >>
    /\ updateCh' = Tail(updateCh)
    /\ start' = [pc |-> "panicked", err |-> "none"]
    /\ panics' = panics \cup {"Start"}
    /\ UNCHANGED <<metrics, sent, result, accepted, seriesVars, notifyVars, hubVars,
                   closed, nilMaps, ctx, stop>>

\* Start, lines 116-123: a case that returns is chosen: stopCh is closed, the
\* context is done, or updateCh is closed and empty.
StartReturns ==
    /\ Alive
    /\ start.pc = "loop"
    /\ \/ /\ closed["stopCh"] > 0 \/ (closed["updateCh"] > 0 /\ updateCh = << >>)
          /\ start' = [pc |-> "cleanup", err |-> "nil"]
       \/ /\ ctx = "done"
          /\ start' = [pc |-> "cleanup", err |-> "ctx.Err"]
    /\ UNCHANGED <<calcVars, seriesVars, notifyVars, hubVars, closed, nilMaps, ctx, stop, panics>>

\* Start, lines 101-106, deferred: every subscriber channel is closed and the
\* subscriber map is replaced by an empty one.
StartCleanupSubscribers ==
    /\ Alive
    /\ start.pc = "cleanup"
    /\ closed' = CloseAll(subscribers, closed)
    /\ panics' = IF ClosesClosed(subscribers, closed) THEN panics \cup {"Start"} ELSE panics
    /\ subscribers' = {}
    /\ nilMaps' = nilMaps \ {"subscribers"}
    /\ start' = [start EXCEPT !.pc = "clear"]
    /\ UNCHANGED <<calcVars, seriesVars, chans, lastUpdate, quiescent, hubVars, ctx, stop>>

\* Start, lines 109-111, deferred: the series map is replaced by an empty one,
\* and Start returns.
StartCleanupMetrics ==
    /\ Alive
    /\ start.pc = "clear"
    /\ ~StopHoldsMetricsMu
    /\ metrics' = << >>
    /\ nilMaps' = nilMaps \ {"metrics"}
    /\ start' = [start EXCEPT !.pc = "returned"]
    /\ UNCHANGED <<updateCh, sent, result, accepted, seriesVars, notifyVars, hubVars,
                   closed, ctx, stop, panics>>

\* The context of Start is cancelled.
CancelCtx ==
    /\ Alive
    /\ ctx = "live"
    /\ ctx' = "done"
    /\ UNCHANGED <<calcVars, seriesVars, notifyVars, hubVars, closed, nilMaps, start, stop, panics>>

\* doOnce.Do, line 174: the body runs in the first call only.
doOnceRunsEveryCall(stp) == TRUE

doOnceRuns(stp) == stp.pc = "idle"

\* Stop, lines 174-176: the first call enters the body and closes stopCh.  A
\* later call does not run the body; one made while the first call runs
\* returns when that one has.
StopCall ==
    /\ Alive
    /\ stop.calls < MaxStops
    /\ IF doOnceRuns(stop)
       THEN /\ closed' = [closed EXCEPT !["stopCh"] = @ + 1]
            /\ panics' = IF closed["stopCh"] > 0 THEN panics \cup {"Stop"} ELSE panics
            /\ stop' = [calls |-> stop.calls + 1, pc |-> "stopCh"]
       ELSE /\ stop' = [stop EXCEPT !.calls = @ + 1]
            /\ UNCHANGED <<closed, panics>>
    /\ UNCHANGED <<calcVars, seriesVars, notifyVars, hubVars, nilMaps, ctx, start>>

\* Stop, lines 179-182: metricsMu is taken, updateCh is closed, metrics = nil.
StopCloseQueue ==
    /\ Alive
    /\ stop.pc = "stopCh"
    /\ closed' = [closed EXCEPT !["updateCh"] = @ + 1]
    /\ panics' = IF closed["updateCh"] > 0 THEN panics \cup {"Stop"} ELSE panics
    /\ metrics' = << >>
    /\ nilMaps' = nilMaps \cup {"metrics"}
    /\ stop' = [stop EXCEPT !.pc = "updateCh"]
    /\ UNCHANGED <<updateCh, sent, result, accepted, seriesVars, notifyVars, hubVars,
                   ctx, start>>

\* Stop, lines 185-191: subscribersMu is taken, every subscriber channel is
\* closed, subscribers = nil, and Stop returns, releasing both locks.
StopCloseSubscribers ==
    /\ Alive
    /\ stop.pc = "updateCh"
    /\ ~StartHoldsSubscribersMu(start)
    /\ closed' = CloseAll(subscribers, closed)
    /\ panics' = IF ClosesClosed(subscribers, closed) THEN panics \cup {"Stop"} ELSE panics
    /\ subscribers' = {}
    /\ nilMaps' = nilMaps \cup {"subscribers"}
    /\ stop' = [stop EXCEPT !.pc = "done"]
    /\ UNCHANGED <<calcVars, seriesVars, chans, lastUpdate, quiescent, hubVars, ctx, start>>

\* Subscribe, lines 156-162, at any time: a new channel ch is made and
\* registered; the assignment to an entry of the nil map panics.
SubscribeAnytime(ch) ==
    /\ Alive
    /\ ~StartHoldsSubscribersMu(start)
    /\ closed[ch] = 0
    /\ "subscribers" \notin nilMaps
    /\ Subscribe(ch)

SubscribePanics(ch) ==
    /\ Alive
    /\ ~StartHoldsSubscribersMu(start)
    /\ closed[ch] = 0
    /\ "subscribers" \in nilMaps
    /\ panics' = panics \cup {"Subscribe"}
    /\ UNCHANGED <<calcVars, seriesVars, notifyVars, hubVars, closed, nilMaps, ctx, start, stop>>

\* Unsubscribe(ch), lines 164-169, at any time, by the owner of a channel that
\* Subscribe returned: delete (of a map that may be nil, or no longer hold
\* ch), then close(ch).
UnsubscribeCloseOnly(ch) ==
    /\ Alive
    /\ ch \in subscribers \/ closed[ch] > 0
    /\ closed' = [closed EXCEPT ![ch] = @ + 1]
    /\ panics' = IF closed[ch] > 0 THEN panics \cup {"Unsubscribe"} ELSE panics
    /\ UNCHANGED <<calcVars, seriesVars, notifyVars, hubVars, nilMaps, ctx, start, stop>>

UnsubscribeAnytime(ch) ==
    /\ Alive
    /\ ~StartHoldsSubscribersMu(start)
    /\ ch \in subscribers \/ closed[ch] > 0
    /\ subscribers' = subscribers \ {ch}
    /\ quiescent' = IF subscribers = {ch} THEN 0 ELSE quiescent
    /\ closed' = [closed EXCEPT ![ch] = @ + 1]
    /\ panics' = IF closed[ch] > 0 THEN panics \cup {"Unsubscribe"} ELSE panics
    /\ UNCHANGED <<calcVars, seriesVars, chans, lastUpdate, hubVars, nilMaps, ctx, start, stop>>

\* NewMetricsCalculator; Start has been called and runs its loop, or is yet
\* to be called.
NotStarted == [pc |-> "idle", err |-> "none"]

InitStop ==
    /\ updateCh = << >>
    /\ metrics = << >>
    /\ sent = [p \in Producers |-> 0]
    /\ result = [p \in Producers |-> "none"]
    /\ accepted = [x \in Producers \X Metadatas |-> 0]
    /\ m = NewMetrics("t", "k", {}, 1)
    /\ hist = << >>
    /\ upd = NoUpdate
    /\ subscribers = {}
    /\ chans = [ch \in Channels |-> << >>]
    /\ lastUpdate = NoMetricsUpdate
    /\ quiescent = -1
    /\ HubInit
    /\ closed = [ch \in ClosableChannels |-> 0]
    /\ nilMaps = {}
    /\ ctx = "live"
    /\ start \in {NotStarted, Running}
    /\ stop = NotStopped
    /\ panics = {}

NextStop ==
    \/ ProcessEventAnytime("key-0")
    \/ StartCall
    \/ StartReceive
    \/ StartReceivePanics
    \/ StartReturns
    \/ StartCleanupSubscribers
    \/ StartCleanupMetrics
    \/ CancelCtx
    \/ StopCall
    \/ StopCloseQueue
    \/ StopCloseSubscribers
    \/ \E ch \in Channels : SubscribeAnytime(ch)
    \/ \E ch \in Channels : SubscribePanics(ch)
    \/ \E ch \in Channels : UnsubscribeAnytime(ch)
    \/ \E ch \in Channels : Receive(ch)

\* The calculator from NewMetricsCalculator to shutdown.
SpecStop == InitStop /\ [][NextStop]_vars

\* The same, with the goroutines of Stop and of Start scheduled fairly: a
\* step of theirs that stays possible is taken.
SpecStopFair ==
    /\ SpecStop
    /\ WF_vars(StopCloseQueue)
    /\ WF_vars(StopCloseSubscribers)
    /\ WF_vars(StartCleanupSubscribers)
    /\ WF_vars(StartCleanupMetrics)

(***************************************************************************)
(* The WebSocket server (src/unnamed/part_003).  A Broadcast call is taken *)
(* one client at a time: it holds clientsMu from its first line to its     *)
(* return, and each WriteMessage is a blocking call on one connection.     *)
(* A connection is "open" (its peer reads), "stalled" (its peer has        *)
(* stopped reading and the buffers are full: a write blocks until the      *)
(* write deadline and then fails), "dead" (the peer has closed or the      *)
(* connection broke: reads and writes fail) or "closed" (the server called *)
(* Close on it).  Conn.SetWriteDeadline only stores the deadline and       *)
(* returns nil, so the `continue` of line 215 is never taken.              *)
(***************************************************************************)
Targets == {"t1", "t2"}

\* The events applied before the consumers connect: one for key "k" of each
\* target.
HubEvents ==
    << [TargetId |-> "t1", Key |-> "k", ms |-> 0, Metadata |-> {<<"tier", "free">>}],
       [TargetId |-> "t2", Key |-> "k", ms |-> 0, Metadata |-> {<<"tier", "free">>}] >>

\* The series map after the loop of Start has applied the events, in order.
RECURSIVE ApplyEvents(_, _)
ApplyEvents(ms, events) ==
    IF events = << >> THEN ms
    ELSE LET event == Head(events)
             order == CHOOSE o \in RangeOrders(event.Metadata) : TRUE
         IN  ApplyEvents(ApplyEvent(ms, SeriesKey(event, order), event), Tail(events))

HubMetrics == ApplyEvents(<< >>, HubEvents)

\* The update that reports series mm as it is.
UpdateOfSeries(mm) ==
    MetricsUpdate([TargetId |-> mm.TargetID, Key |-> mm.Key, Metadata |-> mm.Metadata], mm)

TrackedUpdates(ms) == {UpdateOfSeries(ms[k]) : k \in DOMAIN ms}

\* calculator.GetAllMetrics(), called at line 150: the slice of one update per
\* series of the calculator, whatever its target, in an order of its own.
GetAllMetrics(ms) == CHOOSE order \in RangeOrders(TrackedUpdates(ms)) : TRUE

\* The messages a consumer sends: proto.SubscriptionMessage.
SubscriptionMessages == [TargetId : {"t1"}, SplitByMetadata : BOOLEAN]

\* The messages written to a connection: the WebSocketMessage envelopes.
\* LastUpdated is the emission time of the update: 0 for a snapshot update,
\* the number of the Broadcast call for a live one.
WsAckKnownTargetsOnly(msg) ==
    [Content |-> "SubscriptionAck", TargetId |-> msg.TargetId,
     SplitByMetadata |-> msg.SplitByMetadata, Success |-> msg.TargetId \in Targets]

WsAck(msg) ==
    [Content |-> "SubscriptionAck", TargetId |-> msg.TargetId,
     SplitByMetadata |-> msg.SplitByMetadata, Success |-> TRUE]

WsUpdate(update, at) ==
    [Content |-> "MetricsUpdate", MetricsUpdate |-> update, LastUpdated |-> at]

\* HandleWebSocket, lines 50-64: the connection is upgraded and registered.
HandleWebSocket(c) ==
    /\ Alive
    /\ conn[c] = "none"
    /\ ~bcast.active
    /\ conn' = [conn EXCEPT ![c] = "open"]
    /\ clients' = clients \cup {c}
    /\ reading' = [reading EXCEPT ![c] = TRUE]
    /\ UNCHANGED <<inbox, subscription, bcast, broadcasts, undecoded>>
    /\ UNCHANGED <<calcVars, seriesVars, notifyVars, lifeVars>>

\* The peer stops reading.
PeerStalls(c) ==
    /\ Alive
    /\ conn[c] = "open"
    /\ conn' = [conn EXCEPT ![c] = "stalled"]
    /\ UNCHANGED <<clients, reading, inbox, subscription, bcast, broadcasts, undecoded>>
    /\ UNCHANGED <<calcVars, seriesVars, notifyVars, lifeVars>>

\* The peer closes the connection, or the connection breaks.
PeerCloses(c) ==
    /\ Alive
    /\ conn[c] \in {"open", "stalled"}
    /\ conn' = [conn EXCEPT ![c] = "dead"]
    /\ UNCHANGED <<clients, reading, inbox, subscription, bcast, broadcasts, undecoded>>
    /\ UNCHANGED <<calcVars, seriesVars, notifyVars, lifeVars>>

\* HandleWebSocket, lines 70-88: the ping fails and the connection is closed.
PingFails(c) ==
    /\ Alive
    /\ reading[c]
    /\ conn[c] \in {"stalled", "dead"}
    /\ conn' = [conn EXCEPT ![c] = "closed"]
    /\ UNCHANGED <<clients, reading, inbox, subscription, bcast, broadcasts, undecoded>>
    /\ UNCHANGED <<calcVars, seriesVars, notifyVars, lifeVars>>

\* HandleWebSocket, lines 91-99 and 115: ReadMessage fails, the loop breaks
\* and the handler returns.
ReadLoopEnds(c) ==
    /\ Alive
    /\ reading[c]
    /\ conn[c] \in {"dead", "closed"}
    /\ reading' = [reading EXCEPT ![c] = FALSE]
    /\ UNCHANGED <<clients, conn, inbox, subscription, bcast, broadcasts, undecoded>>
    /\ UNCHANGED <<calcVars, seriesVars, notifyVars, lifeVars>>

\* handleSubscription, lines 117-179, for a subscription message read from an
\* open connection: the acknowledgement, then one update per element of
\* GetAllMetrics().  Nothing of the message is stored by the server.
SnapshotOf(allMetrics) == [i \in DOMAIN allMetrics |-> WsUpdate(allMetrics[i], 0)]

handleSubscription(c, msg) ==
    /\ Alive
    /\ reading[c]
    /\ conn[c] = "open"
    /\ subscription[c] = NoSubscription
    /\ inbox' = [inbox EXCEPT ![c] =
                    (@ \o <<WsAck(msg)>>) \o SnapshotOf(GetAllMetrics(metrics))]
    /\ subscription' = [subscription EXCEPT ![c] = msg]
    /\ UNCHANGED <<clients, conn, reading, bcast, broadcasts, undecoded>>
    /\ UNCHANGED <<calcVars, seriesVars, notifyVars, lifeVars>>

\* handleSubscription, line 144, while the WriteMessage of Broadcast (line
\* 218) is in progress on the same connection: handleSubscription takes no
\* lock, and the two goroutines write to the connection at once.  The
\* connection then either sends the frames one after the other (the step
\* handleSubscription) or finds the other writer at work and panics with
\* "concurrent write to websocket connection".
WritesOverlap(c) == bcast.active /\ bcast.cur = c

handleSubscriptionPanics(c, msg) ==
    /\ Alive
    /\ reading[c]
    /\ conn[c] = "open"
    /\ subscription[c] = NoSubscription
    /\ WritesOverlap(c)
    /\ panics' = panics \cup {"WriteMessage"}
    /\ UNCHANGED <<calcVars, seriesVars, notifyVars, hubVars, closed, nilMaps, ctx, start, stop>>

\* Broadcast, lines 218-223: WriteMessage to client c has returned.  On an
\* error the client is closed and deleted from the map, and the loop goes on.
BroadcastToReturnOnError(c, b, cl, st, ib) ==
    IF st[c] = "open"
    THEN [clients |-> cl, conn |-> st,
          inbox |-> [ib EXCEPT ![c] = Append(@, b.update)],
          pending |-> b.pending \ {c}]
    ELSE [clients |-> cl \ {c}, conn |-> [st EXCEPT ![c] = "closed"],
          inbox |-> ib, pending |-> {}]

BroadcastTo(c, b, cl, st, ib) ==
    IF st[c] = "open"
    THEN [clients |-> cl, conn |-> st,
          inbox |-> [ib EXCEPT ![c] = Append(@, b.update)],
          pending |-> b.pending \ {c}]
    ELSE [clients |-> cl \ {c}, conn |-> [st EXCEPT ![c] = "closed"],
          inbox |-> ib, pending |-> b.pending \ {c}]

\* Broadcast, lines 181-208, called by the goroutine that ranges over the
\* server's subscriber channel, with an update of a tracked series: the lock
\* is taken; with no client the call returns.
BroadcastBegin ==
    /\ Alive
    /\ ~bcast.active
    /\ broadcasts < MaxBroadcasts
    /\ broadcasts' = broadcasts + 1
    /\ \E update \in TrackedUpdates(metrics) :
          bcast' = IF clients = {} THEN NoBroadcast
                   ELSE [active |-> TRUE, update |-> WsUpdate(update, broadcasts + 1),
                         pending |-> clients, cur |-> "none"]
    /\ UNCHANGED <<clients, conn, reading, inbox, subscription, undecoded>>
    /\ UNCHANGED <<calcVars, seriesVars, notifyVars, lifeVars>>

\* Broadcast, lines 210-218: the range reaches client c and WriteMessage is
\* called on it.
BroadcastNext(c) ==
    /\ Alive
    /\ bcast.active
    /\ bcast.cur = "none"
    /\ c \in bcast.pending
    /\ bcast' = [bcast EXCEPT !.cur = c]
    /\ UNCHANGED <<clients, conn, reading, inbox, subscription, broadcasts, undecoded>>
    /\ UNCHANGED <<calcVars, seriesVars, notifyVars, lifeVars>>

\* The WriteMessage in progress has returned; after the last client Broadcast
\* returns and releases the lock.
BroadcastWritten ==
    LET r == BroadcastTo(bcast.cur, bcast, clients, conn, inbox)
    IN  /\ clients' = r.clients
        /\ conn' = r.conn
        /\ inbox' = r.inbox
        /\ bcast' = IF r.pending = {} THEN NoBroadcast
                     ELSE [bcast EXCEPT !.pending = r.pending, !.cur = "none"]
        /\ UNCHANGED <<reading, subscription, broadcasts, undecoded>>
        /\ UNCHANGED <<calcVars, seriesVars, notifyVars, lifeVars>>

\* WriteMessage returns at once on an open connection (written) and on a dead
\* or closed one (error).
BroadcastWrite ==
    /\ Alive
    /\ bcast.active
    /\ bcast.cur # "none"
    /\ conn[bcast.cur] # "stalled"
    /\ BroadcastWritten

\* WriteMessage on a stalled connection returns an error when the write
\* deadline of 5 seconds has passed.
BroadcastWriteTimeout ==
    /\ Alive
    /\ bcast.active
    /\ bcast.cur # "none"
    /\ conn[bcast.cur] = "stalled"
    /\ BroadcastWritten

InitHub ==
    /\ updateCh = << >>
    /\ metrics = HubMetrics
    /\ sent = [p \in Producers |-> 0]
    /\ result = [p \in Producers |-> "none"]
    /\ accepted = [x \in Producers \X Metadatas |-> 0]
    /\ m = NewMetrics("t", "k", {}, 1)
    /\ hist = << >>
    /\ upd = NoUpdate
    /\ subscribers = {"hub"}
    /\ chans = [ch \in Channels |-> << >>]
    /\ lastUpdate = NoMetricsUpdate
    /\ quiescent = -1
    /\ HubInit
    /\ LifeInit

NextHub ==
    \/ \E c \in Conns : HandleWebSocket(c)
    \/ \E c \in Conns : PeerStalls(c)
    \/ \E c \in Conns : PeerCloses(c)
    \/ \E c \in Conns : PingFails(c)
    \/ \E c \in Conns : ReadLoopEnds(c)
    \/ \E c \in Conns, msg \in SubscriptionMessages : handleSubscription(c, msg)
    \/ \E c \in Conns, msg \in SubscriptionMessages : handleSubscriptionPanics(c, msg)
    \/ BroadcastBegin
    \/ \E c \in Conns : BroadcastNext(c)
    \/ BroadcastWrite
    \/ BroadcastWriteTimeout

SpecHub == InitHub /\ [][NextHub]_vars

(***************************************************************************)
(* The server between the calculator and its consumers: the events of a    *)
(* target without series yet ("test-target"), the goroutine of             *)
(* NewWebSocketServer that hands every update of its subscriber channel to *)
(* Broadcast, and the read loop of HandleWebSocket.                        *)
(***************************************************************************)
\* HandleWebSocket, lines 101-106 and 111-112: a message that does not
\* unmarshal, or is of an unhandled type, is logged and the loop goes on.
UnmarshalErrorBreaks(c, cl, st, rd) ==
    [clients |-> cl \ {c}, conn |-> [st EXCEPT ![c] = "closed"],
     reading |-> [rd EXCEPT ![c] = FALSE]]

UnmarshalError(c, cl, st, rd) == [clients |-> cl, conn |-> st, reading |-> rd]

ReadUndecodable(c) ==
    /\ Alive
    /\ reading[c]
    /\ conn[c] = "open"
    /\ undecoded[c] < MaxUndecoded
    /\ undecoded' = [undecoded EXCEPT ![c] = @ + 1]
    /\ LET r == UnmarshalError(c, clients, conn, reading)
       IN  /\ clients' = r.clients
           /\ conn' = r.conn
           /\ reading' = r.reading
    /\ UNCHANGED <<inbox, subscription, bcast, broadcasts>>
    /\ UNCHANGED <<calcVars, seriesVars, notifyVars, lifeVars>>

\* NewWebSocketServer, lines 39-45: the next update of the server's subscriber
\* channel is received and Broadcast is called with it (lines 181-208).
BroadcastFromChannel ==
    /\ Alive
    /\ ~bcast.active
    /\ broadcasts < MaxBroadcasts
    /\ chans["hub"] # << >>
    /\ chans' = [chans EXCEPT !["hub"] = Tail(@)]
    /\ broadcasts' = broadcasts + 1
    /\ bcast' = IF clients = {} THEN NoBroadcast
                ELSE [active |-> TRUE, update |-> WsUpdate(Head(chans["hub"]), broadcasts + 1),
                      pending |-> clients, cur |-> "none"]
    /\ UNCHANGED <<clients, conn, reading, inbox, subscription, undecoded>>
    /\ UNCHANGED <<calcVars, seriesVars, subscribers, lastUpdate, quiescent, lifeVars>>

\* The subscriptions to the target that has no series yet.
NewTargetMessages == [TargetId : {"test-target"}, SplitByMetadata : BOOLEAN]

NextWire ==
    \/ \E c \in Conns : HandleWebSocket(c)
    \/ \E c \in Conns, msg \in NewTargetMessages : handleSubscription(c, msg)
    \/ \E c \in Conns, msg \in NewTargetMessages : handleSubscriptionPanics(c, msg)
    \/ \E c \in Conns : ReadUndecodable(c)
    \/ Alive /\ ProcessEventFrom("key-0", {0}, TierOnly)
    \/ Alive /\ StartEvent
    \/ BroadcastFromChannel
    \/ \E c \in Conns : BroadcastNext(c)
    \/ BroadcastWrite

SpecWire == InitHub /\ [][NextWire]_vars

\* The server as the calculator's subscriber: the events of one producer, with
\* either metadata, the loop turns, and the broadcasts of the updates the
\* server receives from its channel, which the connections record in order.
NextFeed ==
    \/ \E c \in Conns : HandleWebSocket(c)
    \/ ProcessEventFrom("key-0", {0}, Metadatas)
    \/ StartEvent
    \/ BroadcastFromChannel
    \/ \E c \in Conns : BroadcastNext(c)
    \/ BroadcastWrite

SpecFeed == InitHub /\ [][NextFeed]_vars

(***************************************************************************)
(* The series specifications.                                              *)
(***************************************************************************)
CalcIdle ==
    /\ updateCh = << >>
    /\ metrics = << >>
    /\ sent = << >>
    /\ result = << >>
    /\ accepted = << >>
    /\ subscribers = {}
    /\ chans = << >>
    /\ lastUpdate = NoMetricsUpdate
    /\ quiescent = -1
    /\ HubInit
    /\ LifeInit

InitSeries ==
    /\ CalcIdle
    /\ \E n \in 1..MaxCap : m = NewMetrics("t", "k", {}, n)
    /\ hist = << >>
    /\ upd = NoUpdate

\* Metrics.Update(event), as one step.
UpdateSeries ==
    /\ Len(hist) < MaxEvents
    /\ \E ts \in 0..MaxTime :
          /\ m' = Update(m, ts)
          /\ hist' = Append(hist, ts)
    /\ UNCHANGED <<upd, calcVars, notifyVars, hubVars, lifeVars>>

NextSeries == UpdateSeries

SpecSeries == InitSeries /\ [][NextSeries]_vars

\* Metrics.Update(event) up to and including the write of the ring.
UpdateBegin ==
    /\ upd.todo = << >>
    /\ Len(hist) < MaxEvents
    /\ \E ts \in 0..MaxTime :
          /\ m' = RecordSample(m, ts)
          /\ upd' = [todo |-> StoreOrder, count |-> m.count,
                     intervalNs |-> IntervalNs(m, ts)]
          /\ hist' = Append(hist, ts)
    /\ UNCHANGED <<calcVars, notifyVars, hubVars, lifeVars>>

\* The next atomic store of the Update in progress.
UpdateStore ==
    /\ upd.todo # << >>
    /\ m' = ApplyStore(Head(upd.todo), m, upd.count, upd.intervalNs)
    /\ upd' = IF Len(upd.todo) = 1 THEN NoUpdate
              ELSE [upd EXCEPT !.todo = Tail(upd.todo)]
    /\ UNCHANGED <<hist, calcVars, notifyVars, hubVars, lifeVars>>

NextSteps == UpdateBegin \/ UpdateStore

SpecSteps == InitSeries /\ [][NextSteps]_vars

(***************************************************************************)
(* SpecP90: a series of the default capacity, as createMetric builds it.   *)
(* The first event is at 0 ms; the k-th interval is 100*k ms (the run      *)
(* 100, 200, ..., 1000) or 100*(11-k) ms (the run 1000, 900, ..., 100).     *)
(***************************************************************************)
InitP90 ==
    /\ CalcIdle
    /\ m = NewMetrics("t", "k", {}, MaxSamples)
    /\ hist = << >>
    /\ upd = NoUpdate

P90NextTimestamps ==
    IF hist = << >> THEN {0}
    ELSE {Last(hist) + 100 * Len(hist), Last(hist) + 100 * (11 - Len(hist))}

UpdateP90 ==
    /\ Len(hist) < 11
    /\ \E ts \in P90NextTimestamps :
          /\ m' = Update(m, ts)
          /\ hist' = Append(hist, ts)
    /\ UNCHANGED <<upd, calcVars, notifyVars, hubVars, lifeVars>>

NextP90 == UpdateP90

SpecP90 == InitP90 /\ [][NextP90]_vars

(***************************************************************************)
(* Claims about one series.                                                *)
(***************************************************************************)
StrictlyIncreasing(s) == \A i \in 1..(Len(s) - 1) : s[i] < s[i + 1]

\* The number of timestamps the window holds.
WindowSize(mm) == Cardinality(DOMAIN mm.Samples.val)

\* The ring position i elements before the current one.
PosBack(r, i) == ((r.pos - 1 - i) % r.len) + 1

\* The arrival-consecutive differences of a sequence of timestamps that are
\* not negative, in ascending order.
SortedNonNegativeDiffs(ts) == SortFloat64s(ConsecutiveIntervals(ts))

C3_MinAvgMaxOrdered ==
    StrictlyIncreasing(hist) => (m.min <= m.avg /\ m.avg <= m.max)

C3_Witness ==
    /\ StrictlyIncreasing(hist)
    /\ Len(hist) >= 3
    /\ upd.todo # << >> /\ Head(upd.todo) = "avg"
    /\ upd.intervalNs > m.avg
    /\ m.avg > 0

\* C4: for a series with at least one recorded interval (count >= 2),
\* min <= p90 <= max after every Update, for any timestamps and any fill
\* level of the window.
C4_P90BetweenMinAndMax ==
    m.count >= 2 => (m.min <= m.p90 /\ m.p90 <= m.max)

\* C5: when an event's timestamp precedes that of the event before it, Update
\* applies the interval 0: count grows by 1, min, max and avg are updated as
\* for a 0 interval; and no statistic is ever negative.
C5_EarlierTimestampCountsAsZero ==
    /\ [](m.min >= 0 /\ m.max >= 0 /\ m.avg >= 0 /\ m.p90 >= 0)
    /\ [][(hist # << >> /\ hist' # hist /\ Last(hist') < Last(hist)) =>
            /\ m'.count = m.count + 1
            /\ m'.min = Min2(m.min, 0)
            /\ m'.max = m.max
            /\ m'.avg = (m.avg * m.count) \div (m.count + 1)]_vars

C5_Witness ==
    /\ Len(hist) >= 3
    /\ hist[Len(hist)] < hist[Len(hist) - 1]
    /\ m.count = Len(hist)
    /\ m.max > 0 /\ m.avg > 0 /\ m.min = 0

\* C6: after k Updates on a series of window capacity N the window holds
\* exactly min(k, N) timestamps, the min(k, N) most recent ones, in arrival
\* order: beyond capacity each new timestamp overwrites the oldest.
C6_WindowHoldsMostRecent ==
    LET k == Len(hist)
        n == Min2(k, m.Samples.len)
    IN  /\ WindowSize(m) = n
        /\ \A i \in 0..(n - 1) :
              /\ PosBack(m.Samples, i) \in DOMAIN m.Samples.val
              /\ m.Samples.val[PosBack(m.Samples, i)] = hist[k - i]

C6_Witness ==
    /\ Len(hist) > m.Samples.len
    /\ m.Samples.len >= 2
    /\ WindowSize(m) = m.Samples.len
    /\ hist[1] # hist[Len(hist)]

\* C7: after every Update that leaves count >= 2, p90 is the element at index
\* floor((len-1)*0.9) of the ascending non-negative differences between the
\* arrival-consecutive timestamps the window holds, each taken once, oldest
\* first.
C7_P90IsNearestRankOfWindow ==
    LET k == Len(hist)
        n == Min2(k, m.Samples.len)
        held == SubSeq(hist, k - n + 1, k)
        diffs == SortedNonNegativeDiffs(held)
    IN  (m.count >= 2 /\ Len(diffs) > 0) =>
            m.p90 = diffs[(((Len(diffs) - 1) * 9) \div 10) + 1] * millisecondsToNanoseconds

\* C8: a series of the default window capacity whose ten consecutive recorded
\* intervals are 100, 200, ..., 1000 ms, in that order, reports
\* p90 = 900 ms after the last event.
C8_P90OfHundredToThousandIs900 ==
    hist = [i \in 1..11 |-> 50 * i * (i - 1)] =>
        m.p90 = 900 * millisecondsToNanoseconds

(***************************************************************************)
(* Claims about the calculator.                                            *)
(***************************************************************************)
RECURSIVE SumOfCounts(_)
SumOfCounts(keys) ==
    IF keys = {} THEN 0
    ELSE LET k == CHOOSE x \in keys : TRUE
         IN  metrics[k].count + SumOfCounts(keys \ {k})

RECURSIVE SumOfAccepted(_)
SumOfAccepted(pairs) ==
    IF pairs = {} THEN 0
    ELSE LET x == CHOOSE y \in pairs : TRUE
         IN  accepted[x] + SumOfAccepted(pairs \ {x})

\* The series of one event key, and of one (key, metadata) combination.
SeriesOfKey(p) == {k \in DOMAIN metrics : metrics[k].Key = p}

SeriesOf(p, md) == {k \in SeriesOfKey(p) : metrics[k].Metadata = md}

AcceptedFor(p) == SumOfAccepted({p} \X Metadatas)

Drained == updateCh = << >>

AllSent == \A p \in Producers : sent[p] = MaxSends

\* C1: ProcessEvent never blocks the producer: on a full queue the call
\* returns the 'event queue full' error at once, leaves the queue as it was,
\* and the rejected event is dropped: it is never applied, then or later.
C1_FullQueueRejectsWithoutBlocking ==
    /\ [][\A p \in Producers :
            (sent'[p] = sent[p] + 1 /\ Len(updateCh) = QueueCap) =>
                /\ result'[p] = ErrQueueFull
                /\ updateCh' = updateCh
                /\ metrics' = metrics
                /\ accepted' = accepted]_vars
    /\ [](\A p \in Producers : sent[p] < MaxSends => ENABLED ProcessEvent(p))
    /\ [](Len(updateCh) <= QueueCap)
    /\ [](SumOfCounts(DOMAIN metrics) + Len(updateCh)
            = SumOfAccepted(Producers \X Metadatas))

C1_Witness ==
    \E p \in Producers :
        /\ result[p] = ErrQueueFull
        /\ Len(updateCh) = QueueCap
        /\ AcceptedFor(p) < sent[p]

\* C9: series identity does not depend on the order in which the metadata is
\* enumerated: there is at most one series per (target, key, metadata)
\* combination, and once the queue is drained its count is the number of such
\* events processed.
C9_OneSeriesPerIdentity ==
    \A p \in Producers, md \in Metadatas :
        /\ Cardinality(SeriesOf(p, md)) <= 1
        /\ Drained => \A k \in SeriesOf(p, md) : metrics[k].count = accepted[<<p, md>>]

\* C10, as claimed: once every producer has sent its events and the queue is
\* drained, the series map holds exactly one series per producer, each with
\* the count of the events accepted for its key.
C10_ExactlyOneSeriesPerProducer ==
    (AllSent /\ Drained) =>
        /\ Cardinality(DOMAIN metrics) = Cardinality(Producers)
        /\ \A k \in DOMAIN metrics : metrics[k].count = AcceptedFor(metrics[k].Key)

\* C10, amended: once the queue is drained, every series belongs to a producer's
\* key and has a count of at least 1, a key has a series exactly when an event
\* was accepted for it, the counts of the series of a key add up to the number
\* of events accepted for that key, and a (key, metadata) combination of at
\* most one metadata entry has at most one series, whose count is the number
\* of its accepted events.
C10_AcceptedEventsAreCountedOnce ==
    Drained =>
        /\ \A k \in DOMAIN metrics :
              metrics[k].Key \in Producers /\ metrics[k].count >= 1
        /\ \A p \in Producers :
              /\ (SeriesOfKey(p) # {}) <=> (AcceptedFor(p) > 0)
              /\ SumOfCounts(SeriesOfKey(p)) = AcceptedFor(p)
              /\ AcceptedFor(p) <= sent[p]
        /\ \A p \in Producers, md \in Metadatas :
              Cardinality(md) <= 1 =>
                  /\ Cardinality(SeriesOf(p, md)) <= 1
                  /\ \A k \in SeriesOf(p, md) : metrics[k].count = accepted[<<p, md>>]

C10_Witness ==
    /\ AllSent /\ Drained
    /\ \A p \in Producers : AcceptedFor(p) >= 1
    /\ \E p \in Producers : AcceptedFor(p) < sent[p]
    /\ \E p \in Producers : \E k \in SeriesOfKey(p) : metrics[k].count >= 2

(***************************************************************************)
(* Claims about the calculator and its subscribers.                        *)
(***************************************************************************)
\* The number of events ProcessEvent has accepted, and the number applied.
TotalAccepted == SumOfAccepted(Producers \X Metadatas)

Applied == SumOfCounts(DOMAIN metrics)

\* A step is a turn of the loop of Start: it receives the oldest event.
LoopTurn == updateCh # << >> /\ updateCh' = Tail(updateCh)

\* The count of series k before the step; 0 when the step creates it.
CountBefore(k) == IF k \in DOMAIN metrics THEN metrics[k].count ELSE 0

\* C11: while Start runs, under fair scheduling of its loop, every event
\* ProcessEvent accepted is eventually applied: an accepted event never stays
\* buffered for ever (again and again every accepted event has been applied),
\* each turn applies the oldest buffered event to the series of its key and
\* metadata, and the turn that applies it offers its update to every channel
\* registered at that moment: the channel buffers it, or the channel is full
\* and the update is dropped for it.
C11_AcceptedEventIsAppliedAndOffered ==
    /\ []<>(Applied = TotalAccepted)
    /\ [](Applied + Len(updateCh) = TotalAccepted)
    /\ [][LoopTurn =>
            LET event == Head(updateCh)
            IN  /\ \E k \in DOMAIN metrics' :
                      /\ metrics'[k].Key = event.Key
                      /\ metrics'[k].Metadata = event.Metadata
                      /\ metrics'[k].count = CountBefore(k) + 1
                      /\ ringValue(metrics'[k].Samples) = event.ms
                /\ lastUpdate'.Key = event.Key
                /\ \A ch \in subscribers :
                      \/ chans'[ch] = Append(chans[ch], lastUpdate')
                      \/ Len(chans[ch]) = SubCap /\ chans'[ch] = chans[ch]]_vars

C11_Witness ==
    /\ Applied >= 2 /\ Applied = TotalAccepted
    /\ subscribers = Channels
    /\ chans["hub"] = <<lastUpdate>>
    /\ chans["sub"] # << >> /\ Last(chans["sub"]) # lastUpdate

\* C12: a turn of the loop builds exactly one update; its count, min, max,
\* avg and p90 are those of the event's series right after this event's
\* Update, which changed that series and no other; a channel receives at most
\* this one update in the turn; and no other step builds or sends an update.
C12_OneUpdatePerEventWithItsValues ==
    [][IF LoopTurn
       THEN \E k \in DOMAIN metrics' :
               /\ metrics'[k].count = CountBefore(k) + 1
               /\ \A j \in (DOMAIN metrics') \ {k} :
                     j \in DOMAIN metrics /\ metrics'[j] = metrics[j]
               /\ lastUpdate' =
                     [TargetId |-> Head(updateCh).TargetId,
                      Key |-> Head(updateCh).Key,
                      Min |-> Float64Ms(metrics'[k].min),
                      Max |-> Float64Ms(metrics'[k].max),
                      Avg |-> Float64Ms(metrics'[k].avg),
                      P90 |-> Float64Ms(metrics'[k].p90),
                      Count |-> metrics'[k].count,
                      Metadata |-> Head(updateCh).Metadata]
               /\ \A ch \in Channels :
                     chans'[ch] \in {chans[ch], Append(chans[ch], lastUpdate')}
       ELSE /\ lastUpdate' = lastUpdate
            /\ metrics' = metrics
            /\ \A ch \in Channels : Len(chans'[ch]) <= Len(chans[ch])]_vars

C12_Witness ==
    /\ lastUpdate.Count >= 2
    /\ lastUpdate.Max.ns > 0
    /\ \E ch \in subscribers : chans[ch] = <<lastUpdate>>

(***************************************************************************)
(* Claims about the WebSocket server.                                      *)
(***************************************************************************)
Written(c) == {inbox[c][i] : i \in DOMAIN inbox[c]}

\* The updates Broadcast has written to c, and those handleSubscription has.
LiveUpdates(c) ==
    {x \in Written(c) : x.Content = "MetricsUpdate" /\ x.LastUpdated > 0}

SnapshotUpdates(c) ==
    {x \in Written(c) : x.Content = "MetricsUpdate" /\ x.LastUpdated = 0}

\* The update is for the target of the subscription and of its split
\* preference: per metadata combination for split, without metadata for combined.
Matches(update, sub) ==
    /\ sub # NoSubscription
    /\ update.TargetId = sub.TargetId
    /\ sub.SplitByMetadata <=> (update.Metadata # {})

\* C13: an update for target T is delivered only to consumers that hold a
\* subscription for T with the matching split preference; a consumer with no
\* matching subscription, or none, never receives it.
C13_DeliveredOnlyToMatchingSubscribers ==
    \A c \in Conns : \A x \in LiveUpdates(c) :
        Matches(x.MetricsUpdate, subscription[c])

\* C14: when the write to one consumer fails during a Broadcast, exactly that
\* consumer is closed and removed from the client set, nothing is written to
\* it and the write is not repeated (it is no longer among the clients the
\* call still visits, and those are always registered clients), the call goes
\* on with the other clients, and when a Broadcast returns every client still
\* registered has been written the update of that call, the first and every
\* later one.
C14_FailedSendRemovesOnlyThatConsumer ==
    /\ [][(bcast.active /\ bcast.cur # "none" /\ bcast' # bcast) =>
            LET c == bcast.cur
            IN  IF conn[c] = "open"
                THEN /\ inbox' = [inbox EXCEPT ![c] = Append(@, bcast.update)]
                     /\ clients' = clients /\ conn' = conn
                ELSE /\ clients' = clients \ {c}
                     /\ conn' = [conn EXCEPT ![c] = "closed"]
                     /\ inbox' = inbox
                     /\ IF bcast.pending = {c} THEN ~bcast'.active
                        ELSE /\ bcast'.active
                             /\ bcast'.pending = bcast.pending \ {c}
                             /\ bcast'.update = bcast.update]_vars
    /\ [](bcast.active => bcast.pending \subseteq clients)
    /\ [][(bcast.active /\ ~bcast'.active) =>
            \A d \in clients' : bcast.update \in LiveUpdates(d)']_vars

C14_Witness ==
    \E c, d \in Conns :
        /\ c # d
        /\ ~bcast.active /\ broadcasts = 2
        /\ c \notin clients /\ conn[c] = "closed"
        /\ LiveUpdates(c) = {}
        /\ d \in clients
        /\ {x.LastUpdated : x \in LiveUpdates(d)} = {1, 2}

\* C15: delivery is independent per consumer: the broadcaster is never held
\* in a write to a stalled consumer while an open consumer still waits for
\* the update of the call.
C15_StalledConsumerDelaysNoOther ==
    (bcast.active /\ bcast.cur # "none" /\ conn[bcast.cur] = "stalled") =>
        \A d \in bcast.pending \ {bcast.cur} : conn[d] # "open"

\* C16: a consumer whose read loop has ended is not in the client set: the
\* client set is the set of the consumers still connected, without a
\* Broadcast having to fail on them first.
C16_ClientsAreTheConnectedConsumers ==
    \A c \in clients : reading[c]

\* C17: once a consumer's subscription has been processed, the snapshot
\* written to it is exactly one update per series tracked under the
\* subscribed target and split preference, and none for another target.
C17_SnapshotIsOfTheSubscribedTarget ==
    \A c \in Conns :
        subscription[c] # NoSubscription =>
            SnapshotUpdates(c) =
                {WsUpdate(u, 0) : u \in {v \in TrackedUpdates(metrics) :
                                            Matches(v, subscription[c])}}

\* C18: events for one key with different metadata produce a series per
\* metadata combination (for the consumers that subscribed with
\* splitByMetadata=true) and, simultaneously, one aggregated series for the
\* key, with empty metadata, that counts all of them (for the consumers that
\* subscribed with splitByMetadata=false).
C18_SplitAndCombinedSeries ==
    Drained =>
        \A p \in Producers :
            (\A md \in Metadatas : accepted[<<p, md>>] > 0) =>
                /\ \A md \in Metadatas : SeriesOf(p, md) # {}
                /\ \E k \in SeriesOfKey(p) :
                      /\ metrics[k].Metadata = {}
                      /\ metrics[k].count = AcceptedFor(p)

(***************************************************************************)
(* Claims about the grace period.                                          *)
(***************************************************************************)
\* A step registers the first subscriber after the last one had unsubscribed.
Resubscribes == quiescent >= 0 /\ subscribers = {} /\ subscribers' # {}

\* C19: resubscribing within the grace period leaves every series unchanged;
\* resubscribing after the grace period has elapsed (and a sweep has run)
\* finds no prior series.
C19_ResubscribeKeepsOrFindsNothing ==
    [][Resubscribes =>
         IF quiescent <= GracePeriod
         THEN metrics' = metrics
         ELSE metrics = << >> /\ metrics' = << >>]_vars

\* C20: the sweep that runs as time passes removes the target and all its
\* series exactly when the subscriber set is empty and has been so for longer
\* than the grace period; with a subscriber, or quiescent for less, the
\* series stay as they are.
C20_SweepRemovesQuiescentTarget ==
    [][quiescent' > quiescent =>
         IF subscribers = {} /\ quiescent' > GracePeriod
         THEN metrics' = << >>
         ELSE metrics' = metrics]_vars

(***************************************************************************)
(* Claims about the statistics of one series.                              *)
(***************************************************************************)
\* The intervals between the arrival-consecutive timestamps, in ns, an
\* earlier timestamp counting as 0.
RecordedIntervals(ts) ==
    [i \in 1..(Len(ts) - 1) |->
        (IF ts[i + 1] < ts[i] THEN 0 ELSE ts[i + 1] - ts[i]) * millisecondsToNanoseconds]

RECURSIVE SumSeq(_)
SumSeq(xs) == IF xs = << >> THEN 0 ELSE Head(xs) + SumSeq(Tail(xs))

MinSeq(xs) == CHOOSE x \in {xs[i] : i \in DOMAIN xs} : \A i \in DOMAIN xs : x <= xs[i]

MaxSeq(xs) == CHOOSE x \in {xs[i] : i \in DOMAIN xs} : \A i \in DOMAIN xs : x >= xs[i]

\* count, min, max and avg of series mm are those of the samples xs; avg is
\* their arithmetic mean up to the rounding of the integer divisions (less
\* than one nanosecond per Update).
StatisticsOf(mm, xs) ==
    LET n == Len(xs)
    IN  /\ mm.count = n
        /\ n >= 1 =>
              /\ mm.min = MinSeq(xs)
              /\ mm.max = MaxSeq(xs)
              /\ n * mm.avg <= SumSeq(xs)
              /\ SumSeq(xs) - (n * (n + 1)) \div 2 < n * mm.avg

C29_UpdateRecurrence ==
    /\ [][(hist # << >> /\ hist' # hist) =>
            LET x == Last(RecordedIntervals(hist'))
                c == m.count
            IN  /\ c >= 1
                /\ m'.min = Min2(m.min, x)
                /\ m'.max = (IF x > m.max THEN x ELSE m.max)
                /\ m'.avg = (m.avg * c + x) \div (c + 1)
                /\ m'.count = c + 1]_vars
    /\ [][m'.count = m.count + (IF hist' # hist THEN 1 ELSE 0)]_vars

C29_Witness ==
    /\ Len(hist) = 4
    /\ m.count = 4
    /\ hist[2] > hist[1] /\ hist[3] < hist[2] /\ hist[4] > hist[3] + 1
    /\ m.max > m.avg /\ m.avg > 0
    /\ (m.avg * 4) % millisecondsToNanoseconds # 0

(***************************************************************************)
(* Claims about shutdown.                                                  *)
(***************************************************************************)
\* Series k is in the map after the step as it was before it, or with one
\* more event applied to it by a turn of the loop.
SeriesKept(k) ==
    /\ k \in DOMAIN metrics'
    /\ \/ metrics'[k] = metrics[k]
       \/ /\ LoopTurn
          /\ metrics'[k].count = metrics[k].count + 1
          /\ metrics'[k].min <= metrics[k].min
          /\ metrics'[k].max >= metrics[k].max

\* The step is the part of Stop that sets metrics = nil, or the deferred
\* clearing of the map when Start returns.
StopClearsMetrics == stop.pc = "stopCh" /\ stop'.pc = "updateCh"

StartExitClearsMetrics == start.pc = "clear" /\ start'.pc = "returned"

\* C21, as claimed: no step (no sweep exists) removes or resets a series: not
\* an event, Subscribe, Unsubscribe, Stop or the exit of the loop.
C21_SeriesNeverDestroyed ==
    [][\A k \in DOMAIN metrics : SeriesKept(k)]_vars

\* C21, amended: a series is removed only by Stop and by the exit of the loop
\* of Start, each of which clears the whole map; every other step keeps each
\* series as it is, or applies one more event to it.
C21_SeriesDestroyedOnlyAtShutdown ==
    [][IF StopClearsMetrics \/ StartExitClearsMetrics
       THEN metrics' = << >>
       ELSE \A k \in DOMAIN metrics : SeriesKept(k)]_vars

C21_Witness ==
    /\ stop.pc = "done" /\ start.pc = "returned" /\ panics = {}
    /\ lastUpdate.Count = 2
    /\ metrics = << >>
    /\ closed["sub"] = 1 /\ closed["hub"] = 0

\* C23: Stop may be called any number of times, one call after or during
\* another: the first call closes stopCh, updateCh and every subscriber
\* channel registered then, each exactly once (none of them was closed
\* before); every later call changes nothing; and no call of Stop panics.
C23_StopIsIdempotent ==
    /\ []("Stop" \notin panics)
    /\ [](closed["stopCh"] <= 1 /\ closed["updateCh"] <= 1)
    /\ [](closed["stopCh"] = (IF stop.pc = "idle" THEN 0 ELSE 1))
    /\ [](closed["updateCh"] = (IF stop.pc \in {"idle", "stopCh"} THEN 0 ELSE 1))
    /\ [][(stop.pc = "updateCh" /\ stop'.pc = "done") =>
            /\ \A ch \in subscribers : closed[ch] = 0 /\ closed'[ch] = 1
            /\ \A ch \in Channels \ subscribers : closed'[ch] = closed[ch]
            /\ subscribers' = {}]_vars
    /\ [][(stop.calls >= 1 /\ stop'.calls > stop.calls) =>
            /\ stop'.pc = stop.pc
            /\ closed' = closed /\ nilMaps' = nilMaps /\ panics' = panics
            /\ metrics' = metrics /\ updateCh' = updateCh
            /\ subscribers' = subscribers /\ chans' = chans /\ start' = start]_vars

C23_Witness ==
    /\ stop.calls = MaxStops /\ stop.pc = "done"
    /\ start.pc = "loop"
    /\ panics = {}
    /\ closed = [ch \in ClosableChannels |-> 1]
    /\ nilMaps = {"metrics", "subscribers"}
    /\ updateCh # << >>

\* C24: a Start that is told to stop does not fault, even with events still
\* queued: the Start call never panics; when it returns, it returns nil after
\* Stop (or the close of the queue) and the context's error after the
\* cancellation; and a Start called after Stop, with a live context, returns
\* nil at once, without receiving an event or touching the series.
C24_StartReturnsWithoutFault ==
    /\ []("Start" \notin panics /\ start.pc # "panicked")
    /\ [](start.pc = "returned" =>
            \/ start.err = "nil" /\ closed["stopCh"] > 0
            \/ start.err = "ctx.Err" /\ ctx = "done")
    /\ [][(start.pc = "idle" /\ start' # start /\ closed["stopCh"] > 0 /\ ctx = "live") =>
            /\ start' = [pc |-> "returned", err |-> "nil"]
            /\ updateCh' = updateCh /\ metrics' = metrics]_vars

(***************************************************************************)
(* Claims about the order of the events.                                   *)
(***************************************************************************)
\* The step is a ProcessEvent call of producer p.
Calls(p) == sent'[p] = sent[p] + 1

\* The timestamps applied to series mm, oldest first (the ring of MaxSamples
\* elements holds them all: the model applies fewer events than that).
AppliedTimestamps(mm) == [i \in 1..mm.count |-> mm.Samples.val[i + 1]]

\* C30: the loop applies the events one at a time, in the order ProcessEvent
\* accepted them: an accepted event joins the queue behind the events
\* accepted before it and applies nothing; the queue never holds more than
\* its capacity; a turn of the loop takes the oldest event of the queue and
\* applies it, and nothing else, to its series, after the events applied to
\* that series before; and no other step changes the queue or a series.
C30_AppliedInAcceptanceOrder ==
    /\ [](Len(updateCh) <= QueueCap)
    /\ [](\A k \in DOMAIN metrics :
            /\ metrics[k].count >= 1
            /\ DOMAIN metrics[k].Samples.val = 2..(metrics[k].count + 1))
    /\ [][\A p \in Producers : Calls(p) =>
            /\ metrics' = metrics
            /\ IF result'[p] = NoError
               THEN \E ts \in Timestamps, md \in Metadatas :
                        updateCh' = Append(updateCh, Event(p, ts, md))
               ELSE updateCh' = updateCh]_vars
    /\ [][((\A p \in Producers : ~Calls(p)) /\ <<updateCh, metrics>>' # <<updateCh, metrics>>) =>
            /\ updateCh # << >>
            /\ updateCh' = Tail(updateCh)
            /\ \E k \in DOMAIN metrics' :
                  /\ metrics'[k].Key = Head(updateCh).Key
                  /\ metrics'[k].Metadata = Head(updateCh).Metadata
                  /\ AppliedTimestamps(metrics'[k]) =
                        (IF k \in DOMAIN metrics THEN AppliedTimestamps(metrics[k]) ELSE << >>)
                            \o <<Head(updateCh).ms>>
                  /\ \A j \in (DOMAIN metrics') \ {k} :
                        j \in DOMAIN metrics /\ metrics'[j] = metrics[j]
                  /\ DOMAIN metrics \subseteq DOMAIN metrics']_vars

C30_Witness ==
    /\ updateCh # << >>
    /\ Head(updateCh).Key = "key-1"
    /\ \E k \in DOMAIN metrics :
          /\ metrics[k].Key = "key-0"
          /\ AppliedTimestamps(metrics[k]) = <<1, 0>>
    /\ \E p \in Producers : result[p] = ErrQueueFull

(***************************************************************************)
(* Claims about the WebSocket server's broadcasts and its read loop.       *)
(***************************************************************************)
\* The numbers of the Broadcast calls whose update has been written to c.
BroadcastsWritten(c) == {x.LastUpdated : x \in LiveUpdates(c)}

\* The number of the last Broadcast call that has dealt with client c.
LastBroadcastFor(c) ==
    IF bcast.active /\ c \in bcast.pending THEN broadcasts - 1 ELSE broadcasts

\* C25: a Broadcast call visits every client registered when it is made,
\* and every client that is still registered after its visit has been
\* written the update, once; so a registered client has been written the
\* update of every Broadcast call since the first one that reached it, up to
\* the latest, whatever became of the other clients in between.
C25_BroadcastReachesEveryClient ==
    /\ [][(~bcast.active /\ bcast'.active) =>
            (bcast'.pending = clients /\ clients' = clients)]_vars
    /\ [](bcast.active =>
            \A c \in clients \ bcast.pending : bcast.update \in Written(c))
    /\ [](\A c \in clients :
            /\ \E k \in 1..(LastBroadcastFor(c) + 1) :
                  BroadcastsWritten(c) = k..LastBroadcastFor(c)
            /\ \A i, j \in DOMAIN inbox[c] :
                  (inbox[c][i] = inbox[c][j] /\ inbox[c][i].Content = "MetricsUpdate"
                   /\ inbox[c][i].LastUpdated > 0) => i = j)

C25_Witness ==
    \E c, d \in Conns :
        /\ ~bcast.active /\ broadcasts = MaxBroadcasts
        /\ c \in clients /\ d \notin clients
        /\ BroadcastsWritten(d) = {1}
        /\ BroadcastsWritten(c) = 1..MaxBroadcasts

\* C26: a message that does not decode, read from consumer c, ends the
\* connection of c and of no other consumer: after the step c is closed and
\* no longer registered, and every other consumer is as it was.
C26_UndecodableDisconnects ==
    [][\A c \in Conns :
          undecoded'[c] > undecoded[c]
              => /\ conn'[c] = "closed"
                 /\ c \notin clients'
                 /\ \A d \in Conns \ {c} :
                       /\ conn'[d] = conn[d]
                       /\ (d \in clients') = (d \in clients)]_vars

\* C26, as amended: a message that does not decode, read from consumer c, is
\* skipped: c stays connected, registered and read, its subscription and what
\* was written to it stay, and neither the other consumers nor the series, the
\* queue and the subscriber channels of the calculator change.
C26_UndecodableIsSkipped ==
    [][\A c \in Conns :
          undecoded'[c] > undecoded[c]
              => /\ conn[c] = "open" /\ c \in clients /\ reading[c]
                 /\ conn' = conn
                 /\ clients' = clients
                 /\ reading' = reading
                 /\ inbox' = inbox
                 /\ subscription' = subscription
                 /\ bcast' = bcast
                 /\ metrics' = metrics
                 /\ updateCh' = updateCh
                 /\ chans' = chans
                 /\ subscribers' = subscribers]_vars

\* A consumer whose message did not decode has since subscribed and been
\* written a broadcast, next to a consumer that is registered as well.
C26_Witness ==
    \E c \in Conns :
       /\ undecoded[c] = MaxUndecoded
       /\ c \in clients
       /\ conn[c] = "open"
       /\ reading[c]
       /\ inbox[c] # << >>
       /\ inbox[c][Len(inbox[c])].Content = "MetricsUpdate"
       /\ inbox[c][Len(inbox[c])].LastUpdated > 0
       /\ \E d \in clients \ {c} : undecoded[d] = 0
(***************************************************************************)
(* Claims about a subscription to a target that has no event yet.          *)
(***************************************************************************)
HasSeriesOf(ms, target) == \E k \in DOMAIN ms : ms[k].TargetID = target

\* The subscription of c is handled in this step, for a target without series.
SubscribesToNewTarget(c) ==
    /\ subscription[c] = NoSubscription
    /\ subscription'[c] # NoSubscription
    /\ ~HasSeriesOf(metrics, subscription'[c].TargetId)

\* C27: a subscription that names a target without event so far is accepted
\* (it is acknowledged with Success TRUE and the consumer stays connected and
\* registered) and creates no series; the first event of the target creates
\* the series in the loop turn that processes it, that turn hands the update
\* of the target to the server's channel when it has room, the server
\* broadcasts the updates of its channel in order to the clients registered,
\* and when a Broadcast returns every registered client has its update.
C27_NewTargetSubscription ==
    /\ [][\A c \in Conns :
             SubscribesToNewTarget(c)
                 => /\ metrics' = metrics
                    /\ updateCh' = updateCh
                    /\ c \in clients' /\ conn'[c] = "open" /\ reading'[c]
                    /\ Len(inbox'[c]) > Len(inbox[c])
                    /\ LET ack == inbox'[c][Len(inbox[c]) + 1]
                       IN  /\ ack.Content = "SubscriptionAck"
                           /\ ack.TargetId = subscription'[c].TargetId
                           /\ ack.Success = TRUE]_vars
    /\ [][metrics' # metrics
             => /\ updateCh # << >>
                /\ HasSeriesOf(metrics', Head(updateCh).TargetId)
                /\ lastUpdate'.TargetId = Head(updateCh).TargetId
                /\ (~HasSeriesOf(metrics, Head(updateCh).TargetId)
                       => lastUpdate'.Count = 1)
                /\ (Len(chans["hub"]) < SubCap
                       => chans'["hub"] = Append(chans["hub"], lastUpdate'))]_vars
    /\ [][(~bcast.active /\ bcast'.active)
             => /\ chans["hub"] # << >>
                /\ bcast'.update.MetricsUpdate = Head(chans["hub"])
                /\ chans'["hub"] = Tail(chans["hub"])
                /\ bcast'.pending = clients]_vars
    /\ [][bcast.active
             => \A c \in clients :
                   (~bcast'.active \/ c \notin bcast'.pending)
                       => /\ c \in clients'
                          /\ bcast.update \in {inbox'[c][i] : i \in DOMAIN inbox'[c]}]_vars

\* A consumer subscribed to "test-target" when only the two other targets had
\* series (its snapshot has their two updates), and the first update of
\* "test-target" (Count 1) is the next message it was written.
C27_Witness ==
    \E c \in Conns :
       /\ c \in clients
       /\ subscription[c].TargetId = "test-target"
       /\ Len(inbox[c]) = 4
       /\ inbox[c][1].Content = "SubscriptionAck" /\ inbox[c][1].Success
       /\ \A i \in 2..3 : /\ inbox[c][i].Content = "MetricsUpdate"
                          /\ inbox[c][i].LastUpdated = 0
                          /\ inbox[c][i].MetricsUpdate.TargetId \in Targets
       /\ inbox[c][4].Content = "MetricsUpdate"
       /\ inbox[c][4].LastUpdated = 1
       /\ inbox[c][4].MetricsUpdate.TargetId = "test-target"
       /\ inbox[c][4].MetricsUpdate.Count = 1
(***************************************************************************)
(* Claims about a resubscription and the passing of time.                  *)
(***************************************************************************)
\* Every series of the map is in the map after the step, with no sample less.
SeriesStay ==
    \A k \in DOMAIN metrics :
        k \in DOMAIN metrics' /\ metrics'[k].count >= metrics[k].count

C31_ProcessEventAfterStopIsRefused ==
    [][\A p \in Producers :
          (sent'[p] > sent[p] /\ closed["stopCh"] > 0)
              => /\ result'[p] \in {ErrStopping, ErrQueueFull}
                 /\ updateCh' = updateCh
                 /\ "ProcessEvent" \notin panics']_vars

\* C32: once Stop has set the series map to nil, the loop takes no event from
\* the queue and does not panic on the nil map.
C32_NoEventAppliedToNilMap ==
    [][("metrics" \in nilMaps /\ "metrics" \in nilMaps')
          => /\ updateCh' = updateCh \/ Len(updateCh') > Len(updateCh)
             /\ start'.pc # "panicked"]_vars

\* C33: every subscriber channel is closed at most once.
C33_ChannelsClosedAtMostOnce == \A ch \in Channels : closed[ch] <= 1

\* C35: Subscribe called after Stop has returned does not panic, the channel
\* it returns is open, and no update is ever buffered in it.
C35_SubscribeAfterStopIsHarmless ==
    stop.pc = "done"
        => /\ "Subscribe" \notin panics
           /\ \A ch \in subscribers : closed[ch] = 0 /\ chans[ch] = << >>
\* C34: a channel of the subscriber set is open, and a loop turn buffers its
\* update only in channels that are open before and after the turn.
C34_RegisteredChannelsAreOpen ==
    /\ [](\A ch \in subscribers : closed[ch] = 0)
    /\ [][\A ch \in Channels :
             (Len(chans'[ch]) > Len(chans[ch]))
                 => (ch \in subscribers /\ closed[ch] = 0 /\ closed'[ch] = 0)]_vars

\* One channel was closed after it had been sent an update, and the other,
\* still registered and open, holds the update of the second event.
C34_Witness ==
    \E ch, other \in Channels :
        /\ closed[ch] = 1 /\ ch \notin subscribers /\ chans[ch] # << >>
        /\ other \in subscribers /\ closed[other] = 0
        /\ \E i \in DOMAIN chans[other] : chans[other][i].Count = 2
(***************************************************************************)
(* Claims about what the subscribers of the calculator are sent.           *)
(***************************************************************************)
\* C36: a loop turn that meets a subscriber channel holding its full capacity
\* drops the update for that channel only: the contents of the full channel
\* stay, no subscriber is removed, and every other registered channel that
\* has room gains the update as its last element.
C36_FullChannelDropsForItselfOnly ==
    [][metrics' # metrics
          => /\ subscribers' = subscribers
             /\ \A ch \in subscribers :
                   IF Len(chans[ch]) >= SubCap
                   THEN chans'[ch] = chans[ch]
                   ELSE chans'[ch] = Append(chans[ch], lastUpdate')]_vars

\* The update of the latest event was dropped for the full channel, which
\* holds older updates only, and is the last element of the other channel.
C36_Witness ==
    \E full, other \in subscribers :
        /\ full # other
        /\ Len(chans[full]) = SubCap
        /\ \A i \in DOMAIN chans[full] : chans[full][i].Count < lastUpdate.Count
        /\ chans[other] # << >>
        /\ chans[other][Len(chans[other])] = lastUpdate
        /\ lastUpdate.Count >= 2
\* The updates are of the same series: same target, key and metadata.
SameSeries(u, v) ==
    u.TargetId = v.TargetId /\ u.Key = v.Key /\ u.Metadata = v.Metadata

\* C37: the updates of one series that the server received from its
\* subscriber channel, as its connections record them, have strictly
\* increasing counts: none is repeated and none comes before an earlier one.
C37_CountsStrictlyIncrease ==
    \A c \in Conns : \A i, j \in DOMAIN inbox[c] :
        (/\ i < j
         /\ inbox[c][i].Content = "MetricsUpdate" /\ inbox[c][i].LastUpdated > 0
         /\ inbox[c][j].Content = "MetricsUpdate" /\ inbox[c][j].LastUpdated > 0
         /\ SameSeries(inbox[c][i].MetricsUpdate, inbox[c][j].MetricsUpdate))
            => inbox[c][i].MetricsUpdate.Count < inbox[c][j].MetricsUpdate.Count
(***************************************************************************)
(* Claims about the writers of a connection.                               *)
(***************************************************************************)
\* C38: while the WriteMessage of Broadcast is in progress on a connection, no
\* other goroutine writes to that connection: what has been written to it
\* changes only when that WriteMessage returns, and the connection never
\* meets a concurrent write.
C38_OneWriterPerConnection ==
    [][\A c \in Conns :
          WritesOverlap(c)
              => /\ (inbox'[c] = inbox[c] \/ bcast' # bcast)
                 /\ "WriteMessage" \notin panics']_vars
(***************************************************************************)
(* Claims about the two locks of the calculator.                           *)
(***************************************************************************)
\* An operation in progress can take its next step, or waits for metricsMu
\* while Stop, which holds it, can take its own.
StopCanGoOn == stop.pc = "updateCh" /\ ENABLED StopCloseSubscribers

NoLockWaitWithoutEnd ==
    /\ stop.pc = "stopCh" => ENABLED StopCloseQueue
    /\ stop.pc = "updateCh" => ENABLED StopCloseSubscribers
    /\ start.pc = "cleanup" => ENABLED StartCleanupSubscribers
    /\ start.pc = "clear" => (ENABLED StartCleanupMetrics \/ StopCanGoOn)
    /\ (start.pc = "loop" /\ updateCh # << >>)
          => (ENABLED StartReceive \/ ENABLED StartReceivePanics \/ StopCanGoOn)
    /\ \A ch \in subscribers : ENABLED UnsubscribeAnytime(ch)
    /\ \A ch \in Channels :
          (closed[ch] = 0 /\ ch \notin subscribers)
              => (ENABLED SubscribeAnytime(ch) \/ ENABLED SubscribePanics(ch))

\* C39: while the process runs, no operation waits for metricsMu or
\* subscribersMu without end: each one in progress can take its next step or
\* waits for a lock whose holder can; and, the goroutines being scheduled
\* fairly, a Stop that has begun and an exit cleanup of Start that has begun
\* reach their end unless the process has ended.
C39_NoDeadlockOnTheLocks ==
    /\ [](Alive => NoLockWaitWithoutEnd)
    /\ (stop.pc = "stopCh") ~> (stop.pc = "done" \/ ~Alive)
    /\ (start.pc = "cleanup") ~> (start.pc = "returned" \/ ~Alive)

\* The exit cleanup of Start waits for metricsMu, which Stop holds while it
\* is about to take subscribersMu.
C39_Witness ==
    /\ Alive
    /\ stop.pc = "updateCh"
    /\ start.pc = "clear"
    /\ ~ENABLED StartCleanupMetrics
    /\ ENABLED StopCloseSubscribers
====
